---- MODULE Spec2Model ----
(***************************************************************************)
(* A model of flag_finder.py: the FlagFinder object (its regular           *)
(* expression, its set of found flags, what it prints and what it          *)
(* fetches), the scan operations and main().                               *)
(*                                                                         *)
(* A Python str is a sequence of one-character strings.  An optional       *)
(* value (None or a value) is a sequence of length 0 or 1.                 *)
(***************************************************************************)
EXTENDS Integers, Sequences, FiniteSets, TLC

VARIABLES
    args,          \* the argparse namespace of the run (main), or the last call
    pc,            \* position in main(); "api" or "configured" when methods
                   \* are called freely
    fileIdx,       \* index of the next element of args.files in main()'s loop
    exit_status,   \* <<>> while running, <<n>> once the process has exited
    found_flags,   \* FlagFinder.found_flags
    output,        \* everything printed so far, in order
    fetches,       \* every URL handed to session.get so far, in order
    calls,         \* history: every find_flags_in_text call, <<text, source>>
    ops,           \* history: every scan operation / print_summary performed
    verbose,       \* FlagFinder.verbose
    crawl,         \* FlagFinder.crawl
    max_depth,     \* FlagFinder.max_depth
    visited_urls,  \* FlagFinder.visited_urls
    base_domain,   \* FlagFinder.base_domain
    down,          \* environment: the URLs whose GET fails
    unreadable,    \* environment: the existing paths open() fails on
    listing        \* environment: the order each directory listed so far
                   \* gives its files in (<<>> before its first listing)

vars == <<args, pc, fileIdx, exit_status, found_flags, output, fetches, calls,
          ops, verbose, crawl, max_depth, visited_urls, base_domain, down,
          unreadable, listing>>

(***************************************************************************)
(* Bounds of the model.                                                    *)
(***************************************************************************)
MaxTokens == 5     \* tokens a generated text is made of
MaxFiles == 2      \* length of --files
MaxOps == 3        \* method calls in a free sequence of calls
MaxScans == 2      \* method calls after a construction with any configuration

(***************************************************************************)
(* Strings.                                                                *)
(***************************************************************************)
None == <<>>
Some(v) == <<v>>

RECURSIVE Concat(_)
Concat(ss) == IF ss = <<>> THEN <<>> ELSE Head(ss) \o Concat(Tail(ss))

\* The printable ASCII characters in code point order (the double quote, the
\* backslash and the backquote, which no text of the model holds, left out).
AsciiOrder ==
    <<" ", "!", "#", "$", "%", "&", "'", "(", ")", "*", "+", ",", "-",
      ".", "/", "0", "1", "2", "3", "4", "5", "6", "7", "8", "9", ":", ";",
      "<", "=", ">", "?", "@", "A", "B", "C", "D", "E", "F", "G", "H", "I",
      "J", "K", "L", "M", "N", "O", "P", "Q", "R", "S", "T", "U", "V", "W",
      "X", "Y", "Z", "[", "]", "^", "_", "a", "b", "c", "d", "e",
      "f", "g", "h", "i", "j", "k", "l", "m", "n", "o", "p", "q", "r", "s",
      "t", "u", "v", "w", "x", "y", "z", "{", "|", "}", "~">>

\* The rank of ord(c) among the code points of the table.
Ord(c) == CHOOSE i \in 1..Len(AsciiOrder) : AsciiOrder[i] = c

\* Python's a < b on str: by code point, a proper prefix first.
StrLessDesc(a, b) ==
    \E k \in 1..(Len(b) + 1) :
        /\ \A j \in 1..(k - 1) : j <= Len(a) /\ a[j] = b[j]
        /\ \/ (k = Len(b) + 1 /\ Len(a) > Len(b))
           \/ (k <= Len(b) /\ k <= Len(a) /\ Ord(a[k]) > Ord(b[k]))

StrLess(a, b) ==
    \E k \in 1..(Len(a) + 1) :
        /\ \A j \in 1..(k - 1) : j <= Len(b) /\ a[j] = b[j]
        /\ \/ (k = Len(a) + 1 /\ Len(b) > Len(a))
           \/ (k <= Len(a) /\ k <= Len(b) /\ Ord(a[k]) < Ord(b[k]))

\* sorted(s): the insertion of each element of the set in its place.
RECURSIVE Insert(_, _)
Insert(x, sq) ==
    IF sq = <<>> THEN <<x>>
    ELSE IF StrLess(x, Head(sq)) THEN <<x>> \o sq
    ELSE <<Head(sq)>> \o Insert(x, Tail(sq))

RECURSIVE sorted(_)
sorted(s) ==
    IF s = {} THEN <<>>
    ELSE LET x == CHOOSE e \in s : TRUE IN Insert(x, sorted(s \ {x}))

\* The elements of the set from the greatest down.
RECURSIVE InsertDesc(_, _)
InsertDesc(x, sq) ==
    IF sq = <<>> THEN <<x>>
    ELSE IF StrLessDesc(x, Head(sq)) THEN <<x>> \o sq
    ELSE <<Head(sq)>> \o InsertDesc(x, Tail(sq))

RECURSIVE SetToSeqDesc(_)
SetToSeqDesc(s) ==
    IF s = {} THEN <<>>
    ELSE LET x == CHOOSE e \in s : TRUE IN InsertDesc(x, SetToSeqDesc(s \ {x}))

StartsWith(s, p) == Len(p) <= Len(s) /\ SubSeq(s, 1, Len(p)) = p

\* str.endswith
EndsWith(s, p) ==
    Len(p) <= Len(s) /\ SubSeq(s, Len(s) - Len(p) + 1, Len(s)) = p

(***************************************************************************)
(* The flag pattern  USU\{[^}]+\}  and re.findall.                         *)
(***************************************************************************)
FlagPrefix == <<"U", "S", "U", "{">>
CloseBrace == "}"

\* The least element of a non-empty set of integers.
Least(S) == CHOOSE i \in S : \A j \in S : i <= j

\* The index of the first "}" at or after i, Len(text) + 1 when there is none:
\* where the greedy [^}]+ stops.
RunEnd(text, i) ==
    Least({j \in i..Len(text) : text[j] = CloseBrace} \cup {Len(text) + 1})

PrefixAt(text, i) ==
    /\ i + Len(FlagPrefix) - 1 <= Len(text)
    /\ \A k \in 1..Len(FlagPrefix) : text[i + k - 1] = FlagPrefix[k]

\* The pattern matched at position i: the index of the match's last
\* character, 0 when the pattern does not match there.
MatchAt(text, i) ==
    IF PrefixAt(text, i)
    THEN LET j == RunEnd(text, i + Len(FlagPrefix))
         IN  IF j > i + Len(FlagPrefix) /\ j <= Len(text) THEN j ELSE 0
    ELSE 0

\* flag_pattern.search in place of findall: the first match alone.
FindFirstFrom(text, i) ==
    LET starts == {k \in i..Len(text) : MatchAt(text, k) # 0}
    IN  IF starts = {} THEN <<>>
        ELSE <<SubSeq(text, Least(starts), MatchAt(text, Least(starts)))>>

\* flag_pattern.findall(text) from position i on: the search goes to the
\* first position at or after i where the pattern matches, takes the match,
\* and resumes after it.
RECURSIVE FindAllFrom(_, _)
FindAllFrom(text, i) ==
    LET starts == {k \in i..Len(text) : MatchAt(text, k) # 0}
    IN  IF starts = {} THEN <<>>
        ELSE LET k == Least(starts)
                 e == MatchAt(text, k)
             IN  <<SubSeq(text, k, e)>> \o FindAllFrom(text, e + 1)

findall(text) == FindAllFrom(text, 1)

Range(sq) == {sq[i] : i \in 1..Len(sq)}

(***************************************************************************)
(* The FlagFinder object as a value: the fields the operations change,     *)
(* with the two histories, and `raised`, an exception on its way out.      *)
(***************************************************************************)
Out(kind, text, source, n) ==
    [kind |-> kind, text |-> text, source |-> source, n |-> n]

Self ==
    [found_flags |-> found_flags, output |-> output, fetches |-> fetches,
     calls |-> calls, raised |-> FALSE, crawl |-> crawl,
     max_depth |-> max_depth, visited_urls |-> visited_urls,
     base_domain |-> base_domain]

\* log(message): `what` names the message's fixed words, `text` is the value
\* formatted into it.
log(st, what, text) ==
    IF verbose
    THEN [st EXCEPT !.output = Append(@, Out(what, text, <<>>, 0))]
    ELSE st

\* The loop without the test `flag not in self.found_flags`.
RECURSIVE AddFlagsNoDedup(_, _, _)
AddFlagsNoDedup(st, matches, source) ==
    IF matches = <<>> THEN st
    ELSE LET flag == Head(matches)
         IN  AddFlagsNoDedup(
                 [st EXCEPT !.found_flags = @ \cup {flag},
                            !.output = Append(@, Out("FLAG FOUND", flag, source, 0))],
                 Tail(matches), source)

\* The loop with `break` in place of skipping a flag already found.
RECURSIVE AddFlagsStopAtDup(_, _, _)
AddFlagsStopAtDup(st, matches, source) ==
    IF matches = <<>> \/ Head(matches) \in st.found_flags THEN st
    ELSE AddFlagsStopAtDup(
             [st EXCEPT !.found_flags = @ \cup {Head(matches)},
                        !.output = Append(@, Out("FLAG FOUND", Head(matches), source, 0))],
             Tail(matches), source)

\* The loop of find_flags_in_text over the matches.
RECURSIVE AddFlags(_, _, _)
AddFlags(st, matches, source) ==
    IF matches = <<>> THEN st
    ELSE LET flag == Head(matches)
             nx == IF flag \notin st.found_flags
                   THEN [st EXCEPT !.found_flags = @ \cup {flag},
                                   !.output = Append(@, Out("FLAG FOUND", flag, source, 0))]
                   ELSE st
         IN  AddFlags(nx, Tail(matches), source)

\* find_flags_in_text(text, source)
find_flags_in_text(st, text, source) ==
    AddFlags([st EXCEPT !.calls = Append(@, <<text, source>>)],
             findall(text), source)

(***************************************************************************)
(* The file system the run sees: one directory tree.  A directory is       *)
(* [files, dirs]; a file is [name, content].                               *)
(***************************************************************************)
Flag(content) == FlagPrefix \o content \o <<CloseBrace>>

FlagA == Flag(<<"a">>)
FlagB == Flag(<<"b">>)
FlagU == Flag(<<"u">>)
FlagX1 == Flag(<<"x", "1">>)
FlagX2 == Flag(<<"x", "2">>)
FlagY1 == Flag(<<"y", "1">>)
FlagY2 == Flag(<<"y", "2">>)

DirD == <<"d">>
DirT == <<"d", "/", "t">>
NoDir == <<"n", "o">>
NameT == <<"t">>
NameS == <<"s">>
NameE == <<"e", ".", "j", "s">>
NameB == <<"b", ".", "J", "S">>
NameU == <<"u", ".", "j", "s">>
NameAjs == <<"a", ".", "j", "s">>
NameAtxt == <<"a", ".", "t", "x", "t">>
PathE == <<"d", "/", "e", ".", "j", "s">>
PathU == <<"d", "/", "u", ".", "j", "s">>
PathAjs == <<"d", "/", "t", "/", "a", ".", "j", "s">>
PathAtxt == <<"d", "/", "t", "/", "a", ".", "t", "x", "t">>
NoFile == <<"n", "o", "f", "i", "l", "e">>
ExtJs == <<".", "j", "s">>
ExtTxt == <<".", "t", "x", "t">>

File(name, content) == [name |-> name, content |-> content]

\* d/e.js, d/u.js, d/t/a.js, d/t/a.txt, d/t/s/b.JS
FSTree ==
    [files |-> <<File(NameE, FlagA \o <<" ">> \o FlagX1 \o FlagA),
                 File(NameU, FlagU)>>,
     dirs |-> <<[name |-> NameT,
                 tree |-> [files |-> <<File(NameAjs, FlagX1),
                                       File(NameAtxt, FlagX2)>>,
                           dirs |-> <<[name |-> NameS,
                                       tree |-> [files |-> <<File(NameB, FlagB)>>,
                                                 dirs |-> <<>>]]>>]]>>]

\* os.path.join(a, b)
path_join(a, b) ==
    IF StartsWith(b, <<"/">>) THEN b
    ELSE IF a = <<>> \/ EndsWith(a, <<"/">>) THEN a \o b
    ELSE a \o <<"/">> \o b

\* os.walk(top) over a tree known to be at `root`: (root, files) of the
\* directory, then of each subdirectory in turn, top down; the files of a
\* directory come in the order lst, the listing of the file system, gives.
RECURSIVE WalkTree(_, _, _)
RECURSIVE WalkDirs(_, _, _)
WalkTree(root, tree, lst) ==
    <<[root |-> root, files |-> lst[root]]>> \o WalkDirs(root, tree.dirs, lst)
WalkDirs(root, ds, lst) ==
    IF ds = <<>> THEN <<>>
    ELSE WalkTree(path_join(root, Head(ds).name), Head(ds).tree, lst)
             \o WalkDirs(root, Tail(ds), lst)

\* The directories of a tree known to be at `root`, by path.
RECURSIVE DirsIn(_, _)
RECURSIVE DirsInDirs(_, _)
DirsIn(root, tree) == {root} \cup DirsInDirs(root, tree.dirs)
DirsInDirs(root, ds) ==
    IF ds = <<>> THEN {}
    ELSE DirsIn(path_join(root, Head(ds).name), Head(ds).tree)
             \cup DirsInDirs(root, Tail(ds))

TreeDirs == DirsIn(DirD, FSTree)

\* No directory has been listed yet.
Unlisted == [d \in TreeDirs |-> <<>>]

\* The orders os.scandir can give the names S in: any.
Orders(S) ==
    {s \in [1..Cardinality(S) -> S] :
        \A i, j \in 1..Cardinality(S) : s[i] = s[j] => i = j}

\* The directory at `path`, as an optional value.
RECURSIVE ResolveDir(_, _, _)
RECURSIVE ResolveDirs(_, _, _)
ResolveDir(root, tree, path) ==
    IF root = path THEN Some(tree) ELSE ResolveDirs(root, tree.dirs, path)
ResolveDirs(root, ds, path) ==
    IF ds = <<>> THEN None
    ELSE LET r == ResolveDir(path_join(root, Head(ds).name), Head(ds).tree, path)
         IN  IF r # None THEN r ELSE ResolveDirs(root, Tail(ds), path)

\* The listings the file system can show once `directory` has been walked: a
\* directory listed before keeps its order, one listed for the first time
\* gives its files in any order, one not walked stays unlisted.
Listings(directory) ==
    LET t == ResolveDir(DirD, FSTree, directory)
        walked == IF t = None THEN {} ELSE DirsIn(directory, t[1])
        NamesIn(d) ==
            LET fs == ResolveDir(DirD, FSTree, d)[1].files
            IN  {fs[i].name : i \in 1..Len(fs)}
        Choices(d) ==
            IF listing[d] # <<>> THEN {listing[d]}
            ELSE IF d \in walked THEN Orders(NamesIn(d))
            ELSE {<<>>}
    IN  {l \in [TreeDirs -> UNION {Choices(d) : d \in TreeDirs}] :
            \A d \in TreeDirs : l[d] \in Choices(d)}

\* os.walk(directory): every walk it can yield, as <<walk, listing after>>.
\* Nothing is yielded when the directory does not exist (os.walk swallows the
\* listing error).
os_walk(directory) ==
    LET t == ResolveDir(DirD, FSTree, directory)
    IN  IF t = None THEN {<<<<>>, listing>>}
        ELSE {<<WalkTree(directory, t[1], l), l>> : l \in Listings(directory)}

\* The content of the file at `path`, when the tree holds one there.
RECURSIVE FileIn(_, _, _)
RECURSIVE FileInDirs(_, _, _)
RECURSIVE FileAmong(_, _, _)
FileAmong(root, fs, path) ==
    IF fs = <<>> THEN None
    ELSE IF path_join(root, Head(fs).name) = path THEN Some(Head(fs).content)
    ELSE FileAmong(root, Tail(fs), path)
FileIn(root, tree, path) ==
    LET r == FileAmong(root, tree.files, path)
    IN  IF r # None THEN r ELSE FileInDirs(root, tree.dirs, path)
FileInDirs(root, ds, path) ==
    IF ds = <<>> THEN None
    ELSE LET r == FileIn(path_join(root, Head(ds).name), Head(ds).tree, path)
         IN  IF r # None THEN r ELSE FileInDirs(root, Tail(ds), path)

\* open(filepath).read(): None when open raises (no such file, no permission).
open_read(filepath) ==
    IF filepath \in unreadable THEN None ELSE FileIn(DirD, FSTree, filepath)

(***************************************************************************)
(* scan_file, scan_directory                                               *)
(***************************************************************************)
\* scan_file with the exception of open() left to propagate.
scan_file_uncaught(st, filepath) ==
    LET content == open_read(filepath)
    IN  IF content # None
        THEN find_flags_in_text(log(st, "[*] Scanning file:", filepath),
                                content[1], filepath)
        ELSE [st EXCEPT !.raised = TRUE]

\* scan_file(filepath)
scan_file(st, filepath) ==
    LET content == open_read(filepath)
    IN  IF content # None
        THEN find_flags_in_text(log(st, "[*] Scanning file:", filepath),
                                content[1], filepath)
        ELSE [st EXCEPT !.output =
                  Append(@, Out("[-] Error reading", filepath, <<>>, 0))]

\* any(file.endswith(ext) for ext in extensions), the case of letters ignored
has_extension_nocase(file, extensions) ==
    \E i \in 1..Len(extensions) :
        /\ Len(extensions[i]) <= Len(file)
        /\ \A k \in 1..Len(extensions[i]) :
               LET c == file[Len(file) - Len(extensions[i]) + k]
                   e == extensions[i][k]
               IN  c = e \/ (Ord(c) - Ord(e)) \in {Ord("a") - Ord("A"), Ord("A") - Ord("a")}

\* any(file.endswith(ext) for ext in extensions)
has_extension(file, extensions) ==
    \E i \in 1..Len(extensions) : EndsWith(file, extensions[i])

\* The inner loop of scan_directory: the files of one directory.
RECURSIVE ScanFilesOf(_, _, _, _)
ScanFilesOf(st, root, files, extensions) ==
    IF files = <<>> \/ st.raised THEN st
    ELSE ScanFilesOf(
             IF has_extension(Head(files), extensions)
             THEN scan_file(st, path_join(root, Head(files)))
             ELSE st,
             root, Tail(files), extensions)

\* The outer loop of scan_directory: the directories os.walk yields.
RECURSIVE ScanWalk(_, _, _)
ScanWalk(st, walk, extensions) ==
    IF walk = <<>> \/ st.raised THEN st
    ELSE ScanWalk(ScanFilesOf(st, Head(walk).root, Head(walk).files, extensions),
                  Tail(walk), extensions)

DefaultExtensions ==
    <<<<".", "h", "t", "m", "l">>,
      <<".", "h", "t", "m">>,
      <<".", "j", "s">>,
      <<".", "c", "s", "s">>,
      <<".", "p", "h", "p">>,
      <<".", "t", "x", "t">>,
      <<".", "j", "s", "o", "n">>,
      <<".", "x", "m", "l">>>>

\* scan_directory(directory, extensions): extensions is None or a list; walk
\* is what os.walk(directory) yields to it.
scan_directory(st, directory, extensions, walk) ==
    LET exts == IF extensions = None THEN DefaultExtensions ELSE extensions[1]
    IN  ScanWalk(log(st, "[*] Scanning directory:", directory), walk, exts)

(***************************************************************************)
(* The web the run sees.  A document is the sequence of its nodes, in      *)
(* document order; a node is [tag, rel, has, attr, str]: `has` says the    *)
(* element carries its src/href attribute, `attr` is the attribute's       *)
(* value, `str` the element's text.  The body served at a URL is the       *)
(* serialisation of its document, and BeautifulSoup(body) the document.    *)
(***************************************************************************)
PageUrl == <<"h", "t", "t", "p", ":", "/", "/", "h", "/", "p">>
Page2Url == <<"h", "t", "t", "p", ":", "/", "/", "h", "/", "q">>
EmptyUrl == <<"h", "t", "t", "p", ":", "/", "/", "h", "/", "e">>
JsUrl == <<"h", "t", "t", "p", ":", "/", "/", "h", "/", "s", ".", "j", "s">>
Js2Url == <<"h", "t", "t", "p", ":", "/", "/", "h", "/", "t", ".", "j", "s">>
CssUrl == <<"h", "t", "t", "p", ":", "/", "/", "c", "/", "c", ".", "c", "s", "s">>
NextUrl == <<"h", "t", "t", "p", ":", "/", "/", "h", "/", "n">>
RefJs == <<"s", ".", "j", "s">>
RefJs2 == <<"t", ".", "j", "s">>
RefIcon == <<"i", ".", "i", "c", "o">>
RefNext == <<"/", "n">>
SchemeSep == <<":", "/", "/">>

Node(tag, rel, has, attr, str) ==
    [tag |-> tag, rel |-> rel, has |-> has, attr |-> attr, str |-> str]
TextNode(str) == Node("text", <<>>, FALSE, <<>>, str)
CommentNode(str) == Node("comment", <<>>, FALSE, <<>>, str)
ScriptSrc(src, str) == Node("script", <<>>, TRUE, src, str)
ScriptInline(str) == Node("script", <<>>, FALSE, <<>>, str)
StyleNode(str) == Node("style", <<>>, FALSE, <<>>, str)
LinkNode(rel, href) == Node("link", rel, TRUE, href, <<>>)
AnchorNode(href, str) == Node("a", <<>>, TRUE, href, str)

RelStylesheet == <<"s", "t", "y", "l", "e", "s", "h", "e", "e", "t">>
RelIcon == <<"i", "c", "o", "n">>

\* http://h/p : an external script, an inline script, a script with an empty
\* src, an external stylesheet, an icon link, an inline style, an anchor, a
\* comment.
PageDoc ==
    <<ScriptSrc(RefJs, <<>>),
      ScriptInline(<<"v", "=">> \o FlagB),
      ScriptSrc(<<>>, FlagA),
      LinkNode(RelStylesheet, CssUrl),
      LinkNode(RelIcon, RefIcon),
      StyleNode(FlagY2),
      AnchorNode(RefNext, <<"n">>),
      CommentNode(FlagB \o FlagX2)>>

\* http://h/q : an external script, text ending in an unclosed "USU{", an
\* inline style, a stylesheet link with an empty href.
Page2Doc ==
    <<ScriptSrc(RefJs, <<>>),
      TextNode(FlagA \o FlagPrefix),
      StyleNode(FlagY2),
      LinkNode(RelStylesheet, <<>>)>>

\* http://h/s.js : a flag, and markup naming a further script.
JsDoc == <<TextNode(FlagY1 \o FlagA), ScriptSrc(RefJs2, <<>>)>>

WebDocs ==
    {<<PageUrl, PageDoc>>, <<Page2Url, Page2Doc>>, <<EmptyUrl, <<>>>>,
     <<JsUrl, JsDoc>>, <<Js2Url, <<TextNode(FlagU)>>>>,
     <<CssUrl, <<TextNode(FlagX1)>>>>, <<NextUrl, <<TextNode(FlagU)>>>>}

WebUrls == {w[1] : w \in WebDocs}
DocAt(url) == (CHOOSE w \in WebDocs : w[1] = url)[2]

ScriptOpen == <<"<", "s", "c", "r", "i", "p", "t">>
ScriptClose == <<"<", "/", "s", "c", "r", "i", "p", "t", ">">>
StyleOpen == <<"<", "s", "t", "y", "l", "e", ">">>
StyleClose == <<"<", "/", "s", "t", "y", "l", "e", ">">>
LinkOpen == <<"<", "l", "i", "n", "k", " ", "r", "e", "l", "=">>
AnchorOpen == <<"<", "a">>
AnchorClose == <<"<", "/", "a", ">">>
CommentOpen == <<"<", "!", "-", "-">>
CommentClose == <<"-", "-", ">">>
SrcAttr == <<" ", "s", "r", "c", "=">>
HrefAttr == <<" ", "h", "r", "e", "f", "=">>
TagEnd == <<">">>

\* The markup of one node.
Serialize(nd) ==
    CASE nd.tag = "text" -> nd.str
      [] nd.tag = "comment" -> CommentOpen \o nd.str \o CommentClose
      [] nd.tag = "script" ->
             ScriptOpen \o (IF nd.has THEN SrcAttr \o nd.attr ELSE <<>>) \o TagEnd
                 \o nd.str \o ScriptClose
      [] nd.tag = "style" -> StyleOpen \o nd.str \o StyleClose
      [] nd.tag = "link" ->
             LinkOpen \o nd.rel \o (IF nd.has THEN HrefAttr \o nd.attr ELSE <<>>)
                 \o TagEnd
      [] nd.tag = "a" ->
             AnchorOpen \o (IF nd.has THEN HrefAttr \o nd.attr ELSE <<>>) \o TagEnd
                 \o nd.str \o AnchorClose

\* response.text of the document served at url.
ResponseText(url) ==
    LET doc == DocAt(url) IN Concat([i \in 1..Len(doc) |-> Serialize(doc[i])])

\* BeautifulSoup(html_content, 'html.parser') of the body served at url.
BeautifulSoup(url) == DocAt(url)

\* soup.find_all(tag)
RECURSIVE find_all(_, _)
find_all(soup, tag) ==
    IF soup = <<>> THEN <<>>
    ELSE (IF Head(soup).tag = tag THEN <<Head(soup)>> ELSE <<>>)
             \o find_all(Tail(soup), tag)

\* soup.find_all('link', rel='stylesheet')
RECURSIVE find_all_rel(_, _, _)
find_all_rel(soup, tag, rel) ==
    IF soup = <<>> THEN <<>>
    ELSE (IF Head(soup).tag = tag /\ Head(soup).rel = rel
          THEN <<Head(soup)>> ELSE <<>>)
             \o find_all_rel(Tail(soup), tag, rel)

\* soup.find_all(string=lambda text: isinstance(text, str)): every string of
\* the document: text nodes, comments, and the text inside elements.
RECURSIVE find_all_strings(_)
find_all_strings(soup) ==
    IF soup = <<>> THEN <<>>
    ELSE (IF Head(soup).tag = "comment" \/ Head(soup).str # <<>>
          THEN <<Head(soup).str>> ELSE <<>>)
             \o find_all_strings(Tail(soup))

\* The index of the first "/" of s at or after i, Len(s) + 1 when none.
NextSlash(s, i) == Least({j \in i..Len(s) : s[j] = "/"} \cup {Len(s) + 1})

\* The index of the last "/" of s, 0 when it has none.
LastSlash(s) ==
    LET S == {j \in 1..Len(s) : s[j] = "/"} \cup {0}
    IN  CHOOSE i \in S : \A j \in S : j <= i

\* The index at which p first occurs in s, 0 when it does not.
IndexOf(s, p) ==
    LET S == {i \in 1..(Len(s) - Len(p) + 1) : SubSeq(s, i, i + Len(p) - 1) = p}
    IN  IF S = {} THEN 0 ELSE Least(S)

Contains(s, p) == IndexOf(s, p) # 0

\* urljoin(base, ref) for an absolute http base and a reference that is
\* empty, absolute, rooted ("/x") or a plain relative path ("x").
urljoin(base, ref) ==
    IF ref = <<>> THEN base
    ELSE IF Contains(ref, SchemeSep) THEN ref
    ELSE LET hostStart == IndexOf(base, SchemeSep) + Len(SchemeSep)
             hostEnd == NextSlash(base, hostStart)
         IN  IF StartsWith(ref, <<"/">>) THEN SubSeq(base, 1, hostEnd - 1) \o ref
             ELSE IF hostEnd > Len(base) THEN base \o <<"/">> \o ref
             ELSE SubSeq(base, 1, LastSlash(base)) \o ref

(***************************************************************************)
(* fetch_url_content, scan_url                                             *)
(***************************************************************************)
HtmlKind == <<"(", "H", "T", "M", "L", ")">>
JavaScriptKind == <<"(", "J", "a", "v", "a", "S", "c", "r", "i", "p", "t", ")">>
InlineJavaScriptKind ==
    <<"(", "I", "n", "l", "i", "n", "e", " ", "J", "a", "v", "a", "S", "c", "r",
      "i", "p", "t", ")">>
CssKind == <<"(", "C", "S", "S", ")">>
InlineCssKind == <<"(", "I", "n", "l", "i", "n", "e", " ", "C", "S", "S", ")">>
HtmlContentKind ==
    <<"(", "H", "T", "M", "L", " ", "C", "o", "n", "t", "e", "n", "t", ")">>

\* f"{url} {kind}"
Label(url, kind) == url \o <<" ">> \o kind

\* session.get(url, timeout=10) followed by raise_for_status() raises.
get_fails(url) == url \in down \/ url \notin WebUrls

\* fetch_url_content with the exception of the GET left to propagate.
fetch_url_content_uncaught(st, url) ==
    LET st1 == [log(st, "[*] Fetching:", url) EXCEPT !.fetches = Append(@, url)]
    IN  IF get_fails(url)
        THEN [st |-> [st1 EXCEPT !.raised = TRUE], content |-> None]
        ELSE [st |-> st1, content |-> Some(ResponseText(url))]

\* fetch_url_content(url): the object after the call, and the returned text
\* (None on failure).
fetch_url_content(st, url) ==
    LET st1 == [log(st, "[*] Fetching:", url) EXCEPT !.fetches = Append(@, url)]
    IN  IF get_fails(url)
        THEN [st |-> [st1 EXCEPT !.output =
                          Append(@, Out("[-] Error fetching", url, <<>>, 0))],
              content |-> None]
        ELSE [st |-> st1, content |-> Some(ResponseText(url))]

\* Python's truth of an optional str: neither None nor empty.
Truthy(opt) == opt # None /\ opt[1] # <<>>

\* node.get(attribute)
get_attr(nd) == IF nd.has THEN Some(nd.attr) ELSE None

\* node.string
node_string(nd) == IF nd.str = <<>> THEN None ELSE Some(nd.str)

\* The body of the loop over the script tags, for one tag.
scan_script(st, url, script) ==
    IF Truthy(get_attr(script))
    THEN LET script_url == urljoin(url, script.attr)
             r == fetch_url_content(st, script_url)
         IN  IF Truthy(r.content) /\ ~r.st.raised
             THEN find_flags_in_text(r.st, r.content[1],
                                     Label(script_url, JavaScriptKind))
             ELSE r.st
    ELSE IF Truthy(node_string(script))
    THEN find_flags_in_text(st, script.str, Label(url, InlineJavaScriptKind))
    ELSE st

RECURSIVE scan_scripts(_, _, _)
scan_scripts(st, url, scripts) ==
    IF scripts = <<>> \/ st.raised THEN st
    ELSE scan_scripts(scan_script(st, url, Head(scripts)), url, Tail(scripts))

\* The body of the loop over the stylesheet links, for one link.
scan_link(st, url, link) ==
    IF Truthy(get_attr(link))
    THEN LET css_url == urljoin(url, link.attr)
             r == fetch_url_content(st, css_url)
         IN  IF Truthy(r.content) /\ ~r.st.raised
             THEN find_flags_in_text(r.st, r.content[1], Label(css_url, CssKind))
             ELSE r.st
    ELSE st

RECURSIVE scan_links(_, _, _)
scan_links(st, url, links) ==
    IF links = <<>> \/ st.raised THEN st
    ELSE scan_links(scan_link(st, url, Head(links)), url, Tail(links))

\* The loop over the style tags.
RECURSIVE scan_styles(_, _, _)
scan_styles(st, url, styles) ==
    IF styles = <<>> THEN st
    ELSE scan_styles(
             IF Truthy(node_string(Head(styles)))
             THEN find_flags_in_text(st, Head(styles).str, Label(url, InlineCssKind))
             ELSE st,
             url, Tail(styles))

\* The loop over the strings of the document.
RECURSIVE scan_comments(_, _, _)
scan_comments(st, url, comments) ==
    IF comments = <<>> THEN st
    ELSE scan_comments(
             find_flags_in_text(st, Head(comments), Label(url, HtmlContentKind)),
             url, Tail(comments))

\* scan_url from the parse of the page on.
scan_page(st, url) ==
    LET soup == BeautifulSoup(url)
        s1 == scan_scripts(st, url, find_all(soup, "script"))
        s2 == IF s1.raised THEN s1
              ELSE scan_links(s1, url, find_all_rel(soup, "link", RelStylesheet))
        s3 == IF s2.raised THEN s2
              ELSE scan_styles(s2, url, find_all(soup, "style"))
    IN  IF s3.raised THEN s3
        ELSE scan_comments(s3, url, find_all_strings(soup))

\* scan_url without the scan of the raw body.
scan_url_skipping_html(st, url) ==
    LET r == fetch_url_content(log(st, "[*] Scanning URL:", url), url)
    IN  IF r.st.raised \/ ~Truthy(r.content) THEN r.st
        ELSE scan_page(r.st, url)

\* scan_url with the crawl the configuration speaks of: when crawl is set and
\* max_depth allows it, the URL is recorded as visited and the first anchor
\* of the page is fetched too.
scan_url_crawling(st, url) ==
    LET r == fetch_url_content(log(st, "[*] Scanning URL:", url), url)
    IN  IF r.st.raised \/ ~Truthy(r.content) THEN r.st
        ELSE LET done == scan_page(find_flags_in_text(r.st, r.content[1],
                                                      Label(url, HtmlKind)),
                                   url)
                 anchors == find_all(BeautifulSoup(url), "a")
             IN  IF st.crawl /\ st.max_depth > 0 /\ url \notin st.visited_urls
                 THEN LET seen == [done EXCEPT !.visited_urls = @ \cup {url}]
                      IN  IF anchors = <<>> THEN seen
                          ELSE fetch_url_content(
                                   seen, urljoin(url, anchors[1].attr)).st
                 ELSE done

\* scan_url(url)
scan_url(st, url) ==
    LET r == fetch_url_content(log(st, "[*] Scanning URL:", url), url)
    IN  IF r.st.raised \/ ~Truthy(r.content) THEN r.st
        ELSE scan_page(find_flags_in_text(r.st, r.content[1], Label(url, HtmlKind)),
                       url)

(***************************************************************************)
(* print_summary                                                           *)
(***************************************************************************)
FlagLines(flags) == [i \in 1..Len(flags) |-> Out("  flag", flags[i], <<>>, 0)]

\* print_summary with the flags in the order the set yields them.
print_summary_unsorted(st) ==
    [st EXCEPT !.output =
        IF st.found_flags # {}
        THEN @ \o <<Out("====", <<>>, <<>>, 0),
                    Out("[+] Total flags found:", <<>>, <<>>,
                        Cardinality(st.found_flags)),
                    Out("All flags:", <<>>, <<>>, 0)>>
               \o FlagLines(SetToSeqDesc(st.found_flags))
               \o <<Out("====", <<>>, <<>>, 0)>>
        ELSE @ \o <<Out("====", <<>>, <<>>, 0),
                    Out("[-] No flags found", <<>>, <<>>, 0),
                    Out("====", <<>>, <<>>, 0)>>]

\* print_summary()
print_summary(st) ==
    [st EXCEPT !.output =
        IF st.found_flags # {}
        THEN @ \o <<Out("====", <<>>, <<>>, 0),
                    Out("[+] Total flags found:", <<>>, <<>>,
                        Cardinality(st.found_flags)),
                    Out("All flags:", <<>>, <<>>, 0)>>
               \o FlagLines(sorted(st.found_flags))
               \o <<Out("====", <<>>, <<>>, 0)>>
        ELSE @ \o <<Out("====", <<>>, <<>>, 0),
                    Out("[-] No flags found", <<>>, <<>>, 0),
                    Out("====", <<>>, <<>>, 0)>>]

(***************************************************************************)
(* FlagFinder.__init__ and the state after an operation.                   *)
(***************************************************************************)
DefaultMaxDepth == 3

\* The fields after FlagFinder(verbose=v, crawl=c, max_depth=d).
Constructed(v, c, d) ==
    /\ found_flags = {}
    /\ verbose = v
    /\ crawl = c
    /\ max_depth = d
    /\ visited_urls = {}
    /\ base_domain = None
    /\ output = <<>>
    /\ fetches = <<>>
    /\ calls = <<>>
    /\ ops = <<>>

\* The object becomes st.
Becomes(st) ==
    /\ found_flags' = st.found_flags
    /\ output' = st.output
    /\ fetches' = st.fetches
    /\ calls' = st.calls
    /\ crawl' = st.crawl
    /\ max_depth' = st.max_depth
    /\ visited_urls' = st.visited_urls
    /\ base_domain' = st.base_domain

\* A performed operation: its name, its argument, and for scan_directory its
\* extensions argument (None elsewhere).
Op(name, arg, ext) == [op |-> name, arg |-> arg, ext |-> ext]

(***************************************************************************)
(* main(): one step per statement, each method call whole.                 *)
(***************************************************************************)
UrlArgs == {None, Some(<<>>), Some(PageUrl), Some(Page2Url)}
FileArgs == {PathE, PathAtxt, NoFile}
DirArgs == {None, Some(<<>>), Some(DirD), Some(NoDir)}

\* The lists --files (nargs='+') can give: one or more paths.
FileLists == UNION {[1..n -> FileArgs] : n \in 1..MaxFiles}

Namespaces ==
    [url : UrlArgs, files : {None} \cup {Some(l) : l \in FileLists},
     directory : DirArgs, verbose : BOOLEAN]

\* The loop over args.files left out.
AfterUrlSkippingFiles == "directory"

\* Where main() goes after the url step: the loop over args.files when there
\* are any.
AfterUrl == IF Truthy(args.files) THEN "files" ELSE "directory"

\* An exception reaching the top of main(): the traceback, exit status 1.
Crash(st) ==
    /\ Becomes([st EXCEPT !.output = Append(@, Out("Traceback", <<>>, <<>>, 0))])
    /\ pc' = "exited"
    /\ exit_status' = Some(1)

\* if not (args.url or args.files or args.directory): print_help, exit(1);
\* otherwise the construction of the finder and the two banner lines.
MainStart ==
    /\ pc = "parsed"
    /\ IF ~(Truthy(args.url) \/ Truthy(args.files) \/ Truthy(args.directory))
       THEN /\ output' = Append(output, Out("usage", <<>>, <<>>, 0))
            /\ exit_status' = Some(1)
            /\ pc' = "exited"
       ELSE /\ output' = output \o <<Out("[*] Starting flag search...", <<>>, <<>>, 0),
                                     Out("[*] Looking for pattern", <<>>, <<>>, 0)>>
            /\ exit_status' = exit_status
            /\ pc' = "url"
    /\ UNCHANGED <<args, fileIdx, found_flags, fetches, calls, ops, verbose, crawl,
                   max_depth, visited_urls, base_domain, down, unreadable, listing>>

\* if args.url: finder.scan_url(args.url)
MainUrl ==
    /\ pc = "url"
    /\ IF Truthy(args.url)
       THEN \E st \in {scan_url(Self, args.url[1])} :
                /\ ops' = Append(ops, Op("scan_url", args.url[1], None))
                /\ IF st.raised THEN Crash(st)
                   ELSE /\ Becomes(st)
                        /\ pc' = AfterUrl
                        /\ exit_status' = exit_status
       ELSE /\ pc' = AfterUrl
            /\ UNCHANGED <<ops, exit_status, found_flags, output, fetches, calls,
                           crawl, max_depth, visited_urls, base_domain>>
    /\ UNCHANGED <<args, fileIdx, verbose, down, unreadable, listing>>

\* One round of: for file in args.files: finder.scan_file(file)
MainFile ==
    /\ pc = "files"
    /\ \E st \in {scan_file(Self, args.files[1][fileIdx])} :
           /\ ops' = Append(ops, Op("scan_file", args.files[1][fileIdx], None))
           /\ IF st.raised THEN Crash(st) /\ fileIdx' = fileIdx
              ELSE /\ Becomes(st)
                   /\ fileIdx' = fileIdx + 1
                   /\ pc' = IF fileIdx < Len(args.files[1]) THEN "files"
                            ELSE "directory"
                   /\ exit_status' = exit_status
    /\ UNCHANGED <<args, verbose, down, unreadable, listing>>

\* if args.directory: finder.scan_directory(args.directory)
MainDirectory ==
    /\ pc = "directory"
    /\ IF Truthy(args.directory)
       THEN \E w \in os_walk(args.directory[1]) :
            \E st \in {scan_directory(Self, args.directory[1], None, w[1])} :
                /\ listing' = w[2]
                /\ ops' = Append(ops, Op("scan_directory", args.directory[1], None))
                /\ IF st.raised THEN Crash(st)
                   ELSE /\ Becomes(st)
                        /\ pc' = "summary"
                        /\ exit_status' = exit_status
       ELSE /\ pc' = "summary"
            /\ UNCHANGED <<ops, exit_status, found_flags, output, fetches, calls,
                           crawl, max_depth, visited_urls, base_domain, listing>>
    /\ UNCHANGED <<args, fileIdx, verbose, down, unreadable>>

\* finder.print_summary(), and the return of main(): exit status 0.
MainSummary ==
    /\ pc = "summary"
    /\ \E st \in {print_summary(Self)} : Becomes(st)
    /\ ops' = Append(ops, Op("print_summary", <<>>, None))
    /\ pc' = "exited"
    /\ exit_status' = Some(0)
    /\ UNCHANGED <<args, fileIdx, verbose, down, unreadable, listing>>

\* The failures of the environment: which GETs fail, which files cannot be
\* opened.
DownSets == {{}, {PageUrl}, {JsUrl}, {CssUrl}, {JsUrl, CssUrl}}

Environment ==
    /\ down \in DownSets
    /\ unreadable = {PathU}
    /\ listing = Unlisted

Init ==
    /\ args \in Namespaces
    /\ pc = "parsed"
    /\ fileIdx = 1
    /\ exit_status = None
    /\ Constructed(args.verbose, FALSE, DefaultMaxDepth)
    /\ Environment

Next == MainStart \/ MainUrl \/ MainFile \/ MainDirectory \/ MainSummary

Spec == Init /\ [][Next]_vars

(***************************************************************************)
(* A FlagFinder whose methods are called in any order.                     *)
(***************************************************************************)
SourceOne == <<"s", "1">>
SourceTwo == <<"s", "2">>
ApiTexts ==
    {<<FlagA \o FlagB, SourceOne>>, <<FlagB \o <<" ">> \o FlagA \o FlagB, SourceTwo>>}
ApiFiles == {PathE, NoFile}
ApiDirectories ==
    {<<DirD, Some(<<ExtJs>>)>>, <<DirT, Some(<<ExtJs>>)>>, <<DirT, None>>}
ApiUrls == {PageUrl, Page2Url, EmptyUrl}
ApiFetches == {PageUrl, JsUrl}
ApiMessages == {<<"m">>}

NoArgs == [url |-> None, files |-> None, directory |-> None, verbose |-> FALSE]

\* A further method call is made.
Callable ==
    \/ pc = "api" /\ Len(ops) < MaxOps
    \/ pc = "configured" /\ Len(ops) < MaxScans

\* The call returns, or its exception reaches the caller.
Returns(st) ==
    IF st.raised THEN Crash(st)
    ELSE Becomes(st) /\ UNCHANGED <<pc, exit_status>>

ApiFindFlagsInText(text, source) ==
    /\ Callable
    /\ \E st \in {find_flags_in_text(Self, text, source)} : Returns(st)
    /\ ops' = Append(ops, Op("find_flags_in_text", text, None))
    /\ UNCHANGED <<args, fileIdx, verbose, down, unreadable, listing>>

ApiScanFile(filepath) ==
    /\ Callable
    /\ \E st \in {scan_file(Self, filepath)} : Returns(st)
    /\ ops' = Append(ops, Op("scan_file", filepath, None))
    /\ UNCHANGED <<args, fileIdx, verbose, down, unreadable, listing>>

ApiScanDirectory(directory, extensions) ==
    /\ Callable
    /\ \E w \in os_walk(directory) :
       \E st \in {scan_directory(Self, directory, extensions, w[1])} :
           Returns(st) /\ listing' = w[2]
    /\ ops' = Append(ops, Op("scan_directory", directory, extensions))
    /\ UNCHANGED <<args, fileIdx, verbose, down, unreadable>>

ApiScanUrl(url) ==
    /\ Callable
    /\ \E st \in {scan_url(Self, url)} : Returns(st)
    /\ ops' = Append(ops, Op("scan_url", url, None))
    /\ UNCHANGED <<args, fileIdx, verbose, down, unreadable, listing>>

\* fetch_url_content(url) called for itself: the returned text goes unused.
ApiFetchUrlContent(url) ==
    /\ Callable
    /\ \E r \in {fetch_url_content(Self, url)} : Returns(r.st)
    /\ ops' = Append(ops, Op("fetch_url_content", url, None))
    /\ UNCHANGED <<args, fileIdx, verbose, down, unreadable, listing>>

\* log(message) called for itself.
ApiLog(message) ==
    /\ Callable
    /\ \E st \in {log(Self, "[*] Note:", message)} : Returns(st)
    /\ ops' = Append(ops, Op("log", message, None))
    /\ UNCHANGED <<args, fileIdx, verbose, down, unreadable, listing>>

ApiPrintSummary ==
    /\ Callable
    /\ \E st \in {print_summary(Self)} : Returns(st)
    /\ ops' = Append(ops, Op("print_summary", <<>>, None))
    /\ UNCHANGED <<args, fileIdx, verbose, down, unreadable, listing>>

InitApi ==
    /\ args = NoArgs
    /\ pc = "api"
    /\ fileIdx = 1
    /\ exit_status = None
    /\ \/ Constructed(TRUE, TRUE, 1) /\ down = {}
       \/ Constructed(FALSE, FALSE, DefaultMaxDepth) /\ down = {JsUrl, CssUrl}
    /\ unreadable = {PathU}
    /\ listing = Unlisted

NextApi ==
    \/ \E t \in ApiTexts : ApiFindFlagsInText(t[1], t[2])
    \/ \E filepath \in ApiFiles : ApiScanFile(filepath)
    \/ \E d \in ApiDirectories : ApiScanDirectory(d[1], d[2])
    \/ \E url \in ApiUrls : ApiScanUrl(url)
    \/ \E url \in ApiFetches : ApiFetchUrlContent(url)
    \/ \E message \in ApiMessages : ApiLog(message)
    \/ ApiPrintSummary

SpecApi == InitApi /\ [][NextApi]_vars

(***************************************************************************)
(* A FlagFinder constructed with any crawl and max_depth, its methods      *)
(* called in any order.                                                    *)
(***************************************************************************)
InitConfig ==
    /\ args = NoArgs
    /\ pc = "configured"
    /\ fileIdx = 1
    /\ exit_status = None
    /\ \E c \in BOOLEAN, d \in {1, DefaultMaxDepth} :
           \/ Constructed(TRUE, c, d) /\ down = {}
           \/ Constructed(FALSE, c, d) /\ down = {JsUrl, CssUrl}
    /\ unreadable = {PathU}
    /\ listing = Unlisted

SpecConfig == InitConfig /\ [][NextApi]_vars

(***************************************************************************)
(* find_flags_in_text applied once, by a new FlagFinder, to a text made of *)
(* up to MaxTokens pieces.                                                 *)
(***************************************************************************)
Tokens == {FlagPrefix, <<"U">>, <<"S">>, <<CloseBrace>>, FlagA,
           <<"e", "x", "t", "r", "a">>}

TokenLists == UNION {[1..n -> Tokens] : n \in 0..MaxTokens}

GenTexts == {Concat(l) : l \in TokenLists}

TextFindFlagsInText ==
    /\ pc = "text"
    /\ \E st \in {find_flags_in_text(Self, args.text, SourceOne)} : Becomes(st)
    /\ ops' = Append(ops, Op("find_flags_in_text", args.text, None))
    /\ pc' = "text_done"
    /\ UNCHANGED <<args, fileIdx, exit_status, verbose, down, unreadable, listing>>

InitText ==
    /\ args \in {[text |-> t] : t \in GenTexts}
    /\ pc = "text"
    /\ fileIdx = 1
    /\ exit_status = None
    /\ Constructed(FALSE, FALSE, DefaultMaxDepth)
    /\ down = {}
    /\ unreadable = {}
    /\ listing = Unlisted

NextText == TextFindFlagsInText

SpecText == InitText /\ [][NextText]_vars

(***************************************************************************)
(* Either a run of main(), whose scans hand find_flags_in_text the texts of *)
(* pages, scripts, stylesheets and files, or find_flags_in_text on a       *)
(* made-up text.                                                           *)
(***************************************************************************)
SpecMainOrText == (Init \/ InitText) /\ [][Next \/ NextText]_vars

(***************************************************************************)
(* What the claims speak of.                                               *)
(***************************************************************************)
IsFlagFound(o) == o.kind = "FLAG FOUND"
IsFlagLine(o) == o.kind = "  flag"
IsSeparator(o) == o.kind = "===="

\* The immediate reports, in the order printed.
Reports == SelectSeq(output, IsFlagFound)

Matched(text) == Range(findall(text))

\* Every string matched by some find_flags_in_text call so far.
AllMatched == UNION {Matched(calls[i][1]) : i \in 1..Len(calls)}

\* The matches of each call's text.
MatchesOfCalls == [i \in 1..Len(calls) |-> Matched(calls[i][1])]

\* The source label of the first call whose text matched the flag, m being
\* the matches of each call.
FirstSourceIn(m, flag) == calls[Least({i \in 1..Len(calls) : flag \in m[i]})][2]

FirstSource(flag) == FirstSourceIn(MatchesOfCalls, flag)

ReportOf(flag) == CHOOSE o \in Range(Reports) : o.text = flag

\* The summary printed last: from its opening separator to the end.
SummaryBlock ==
    LET start == CHOOSE i \in 1..(Len(output) - 1) :
                     /\ IsSeparator(output[i])
                     /\ \A j \in (i + 1)..(Len(output) - 1) : ~IsSeparator(output[j])
    IN  SubSeq(output, start, Len(output))

SummaryLines == SelectSeq(SummaryBlock, IsFlagLine)

\* a before b in lexicographic order of code points.
RECURSIVE LexLess(_, _)
LexLess(a, b) ==
    IF b = <<>> THEN FALSE
    ELSE IF a = <<>> THEN TRUE
    ELSE IF Head(a) # Head(b) THEN Ord(Head(a)) < Ord(Head(b))
    ELSE LexLess(Tail(a), Tail(b))

LastOpIs(name) == ops # <<>> /\ ops[Len(ops)].op = name

\* C1: a summary printed after any sequence of scans lists every distinct
\* string matched so far exactly once, in ascending lexicographic order, with
\* a total equal to their number; with nothing matched it is the
\* "No flags found" line and no flag.
C1_SummaryListsEachFlagOnceSorted ==
    LastOpIs("print_summary") =>
        LET b == SummaryBlock
            lines == SummaryLines
        IN  /\ {lines[i].text : i \in 1..Len(lines)} = AllMatched
            /\ \A i \in 1..(Len(lines) - 1) : LexLess(lines[i].text, lines[i + 1].text)
            /\ IF AllMatched = {}
               THEN [i \in 1..Len(b) |-> b[i].kind]
                        = <<"====", "[-] No flags found", "====">>
               ELSE /\ b[2].kind = "[+] Total flags found:"
                    /\ b[2].n = Cardinality(AllMatched)
                    /\ Len(lines) = Cardinality(AllMatched)
                    /\ \A i \in 1..Len(b) : b[i].kind # "[-] No flags found"

\* A summary of three flags, one of them matched by more than one call.
C1_Witness ==
    /\ LastOpIs("print_summary")
    /\ Len(SummaryLines) >= 3
    /\ \E i, j \in 1..Len(calls) :
           i # j /\ Matched(calls[i][1]) \cap Matched(calls[j][1]) # {}
    /\ \E i \in 1..Len(calls) : Len(findall(calls[i][1])) > Cardinality(Matched(calls[i][1]))

\* C2: each flag has at most one immediate report, carrying the source of the
\* first call that matched it; later matches print nothing and raise nothing;
\* the number of reports equals the size of found_flags.
C2_OneReportPerFlagFirstSource ==
    /\ \E m \in {MatchesOfCalls}, r \in {Reports} :
           /\ Len(r) = Cardinality(found_flags)
           /\ \A i \in 1..Len(r) :
                  /\ r[i].text \in found_flags
                  /\ r[i].source = FirstSourceIn(m, r[i].text)
                  /\ \A j \in 1..Len(r) : r[j].text = r[i].text => j = i
    /\ exit_status = None
    /\ \A i \in 1..Len(output) : output[i].kind # "Traceback"

\* A flag matched twice in one text and again by a later call under another
\* source label.
C2_Witness ==
    /\ Len(Reports) >= 2
    /\ \E i, j \in 1..Len(calls) :
           /\ i < j
           /\ calls[i][2] # calls[j][2]
           /\ Matched(calls[i][1]) \cap Matched(calls[j][1]) # {}
           /\ Len(findall(calls[j][1])) > Cardinality(Matched(calls[j][1]))

\* s is "USU{", one or more characters other than "}", then "}".
IsFlagShaped(s) ==
    /\ Len(s) >= Len(FlagPrefix) + 2
    /\ SubSeq(s, 1, Len(FlagPrefix)) = FlagPrefix
    /\ s[Len(s)] = CloseBrace
    /\ \A k \in (Len(FlagPrefix) + 1)..(Len(s) - 1) : s[k] # CloseBrace

\* The spans <<i, j>> of text that are flag-shaped.
Spans(text) ==
    {sp \in {i \in 1..Len(text) : text[i] = "U"} \X {j \in 1..Len(text) : text[j] = CloseBrace} :
        sp[1] < sp[2] /\ IsFlagShaped(SubSeq(text, sp[1], sp[2]))}

\* The spans taken left to right without overlap: a span is taken exactly when
\* no taken span that starts before it reaches it.
NonOverlapping(text) ==
    CHOOSE sel \in SUBSET Spans(text) :
        \A sp \in Spans(text) :
            sp \in sel <=> ~\E q \in sel : q[1] < sp[1] /\ sp[1] <= q[2]

ExampleNearestBrace == FlagA \o <<"e", "x", "t", "r", "a">> \o <<CloseBrace>>
ExampleEmptyContent == FlagPrefix \o <<CloseBrace>>

\* The strings the pattern matches in text, by that definition.
PatternMatches(text) ==
    {SubSeq(text, sp[1], sp[2]) : sp \in NonOverlapping(text)}

ExampleNested == FlagPrefix \o FlagA \o FlagA

\* C3: the strings find_flags_in_text adds are exactly the non-overlapping
\* left-to-right matches of "USU{", one or more non-"}" characters and the
\* nearest "}", in every text any operation hands to it: "USU{a}extra}" gives
\* "USU{a}" alone, "USU{}" nothing, a text without a match adds and prints
\* nothing; every found flag, in every reachable state, has that shape.
C3_MatchesAreThePattern ==
    /\ \A f \in found_flags : IsFlagShaped(f)
    /\ found_flags = UNION {PatternMatches(calls[i][1]) : i \in 1..Len(calls)}
    /\ (\A i \in 1..Len(calls) : Spans(calls[i][1]) = {}) =>
           found_flags = {} /\ Reports = <<>>
    /\ pc = "text" => found_flags = {} /\ output = <<>>
    /\ pc = "text_done" =>
           /\ calls = <<<<args.text, SourceOne>>>>
           /\ Spans(args.text) = {} => output = <<>>
           /\ Len(Reports) = Cardinality(PatternMatches(args.text))
           /\ args.text = ExampleNearestBrace => found_flags = {FlagA}
           /\ args.text = ExampleEmptyContent => found_flags = {}

\* "USU{USU{a}USU{a}" has been scanned: of its three flag-shaped spans the
\* first, which holds the second, and the third were taken, two flags.
C3_Witness ==
    /\ pc = "text_done"
    /\ args.text = ExampleNested
    /\ Cardinality(Spans(args.text)) = 3
    /\ found_flags = {FlagPrefix \o FlagA, FlagA}
    /\ Len(Reports) = 2

WordJavaScript == <<"J", "a", "v", "a", "S", "c", "r", "i", "p", "t">>
WordCSS == <<"C", "S", "S">>

IsScriptWithSrc(nd) == nd.tag = "script" /\ nd.has
IsStylesheetWithHref(nd) == nd.tag = "link" /\ nd.rel = RelStylesheet /\ nd.has
IsFetchedScript(nd) == IsScriptWithSrc(nd) /\ nd.attr # <<>>
IsFetchedStylesheet(nd) == IsStylesheetWithHref(nd) /\ nd.attr # <<>>

\* The GET of url succeeds (with a body).
Serves(url) == url \in WebUrls /\ url \notin down

\* The page at url embeds an external script whose body contains USU{y1} and
\* an inline style whose text contains USU{y2}; USU{y1} is nowhere in the
\* page's own body; every fetch of the scan succeeds.
EmbedsY1AndY2(url) ==
    /\ Serves(url)
    /\ \A i \in 1..Len(DocAt(url)) :
           (IsFetchedScript(DocAt(url)[i]) \/ IsFetchedStylesheet(DocAt(url)[i]))
               => Serves(urljoin(url, DocAt(url)[i].attr))
    /\ \E i \in 1..Len(DocAt(url)) :
           /\ IsFetchedScript(DocAt(url)[i])
           /\ Contains(ResponseText(urljoin(url, DocAt(url)[i].attr)), FlagY1)
    /\ \E i \in 1..Len(DocAt(url)) :
           DocAt(url)[i].tag = "style" /\ Contains(DocAt(url)[i].str, FlagY2)
    /\ ~Contains(ResponseText(url), FlagY1)

\* main() has returned after a url scan of such a page.
C4_Case ==
    /\ pc = "exited"
    /\ exit_status = Some(0)
    /\ Truthy(args.url)
    /\ EmbedsY1AndY2(args.url[1])

BothInSummary ==
    {FlagY1, FlagY2} \subseteq {SummaryLines[i].text : i \in 1..Len(SummaryLines)}

\* C4 as stated: both flags are in the summary, the report of USU{y1} carries
\* a label containing "JavaScript" and the report of USU{y2} a label
\* containing "CSS".
C4_AsStated ==
    C4_Case =>
        /\ BothInSummary
        /\ Contains(ReportOf(FlagY1).source, WordJavaScript)
        /\ Contains(ReportOf(FlagY2).source, WordCSS)

\* C4 amended: both flags are in the summary and the report of USU{y1}
\* carries a label containing "JavaScript"; the report of USU{y2} carries the
\* "(HTML)" label of the raw body, which holds no "CSS", whenever the scan of
\* the raw body matches USU{y2}, and a label containing "CSS" only when no
\* scan before the style's matched it.
C4_FirstScanLabels ==
    C4_Case =>
        /\ BothInSummary
        /\ Contains(ReportOf(FlagY1).source, WordJavaScript)
        /\ ReportOf(FlagY2).source = FirstSource(FlagY2)
        /\ FlagY2 \in Matched(ResponseText(args.url[1])) =>
               /\ ReportOf(FlagY2).source = Label(args.url[1], HtmlKind)
               /\ ~Contains(ReportOf(FlagY2).source, WordCSS)
        /\ FirstSource(FlagY2) = Label(args.url[1], InlineCssKind) =>
               Contains(ReportOf(FlagY2).source, WordCSS)

\* The run over http://h/p with every fetch succeeding has ended: USU{y2}, in
\* the inline style, was reported from the raw body.
C4_Witness ==
    /\ C4_Case
    /\ args.url = Some(PageUrl)
    /\ FlagY2 \in found_flags
    /\ ReportOf(FlagY2).source = Label(PageUrl, HtmlKind)
    /\ ReportOf(FlagY1).source = Label(JsUrl, JavaScriptKind)

Printed(kind, text) ==
    \E i \in 1..Len(output) : output[i].kind = kind /\ output[i].text = text

Called(text, source) == \E i \in 1..Len(calls) : calls[i] = <<text, source>>

CalledFrom(source) == \E i \in 1..Len(calls) : calls[i][2] = source

\* The operations the namespace asks for, in main()'s order, a value counting
\* as given when `given` says so.
RequestedOps(givenUrl, givenFiles, givenDirectory) ==
    (IF givenUrl THEN <<Op("scan_url", args.url[1], None)>> ELSE <<>>)
        \o (IF givenFiles
            THEN [i \in 1..Len(args.files[1]) |-> Op("scan_file", args.files[1][i], None)]
            ELSE <<>>)
        \o (IF givenDirectory THEN <<Op("scan_directory", args.directory[1], None)>>
            ELSE <<>>)
        \o <<Op("print_summary", <<>>, None)>>

\* The operations main() performs on a value that is neither None nor empty.
TruthyOps == RequestedOps(Truthy(args.url), Truthy(args.files), Truthy(args.directory))

IsPrefix(a, b) == Len(a) <= Len(b) /\ SubSeq(b, 1, Len(a)) = a

\* The state main() is in right after its url step.
JustAfterUrl == Len(ops) = 1 /\ ops[1].op = "scan_url"

\* C5: a failed fetch of the main page is reported, ends that URL's scan with
\* found_flags unchanged, and the run goes on to the files, the directory and
\* the summary; a failed fetch of one script or stylesheet is reported and
\* skips that resource alone: every other script, stylesheet, inline style
\* and string of the page is still scanned, and its flags are found.
C5_FetchFailuresAreLocal ==
    /\ found_flags = AllMatched
    /\ \A i \in 1..Len(fetches) :
           ~Serves(fetches[i]) <=> Printed("[-] Error fetching", fetches[i])
    /\ (pc = "exited" /\ Truthy(args.url)) =>
           exit_status = Some(0) /\ ops = TruthyOps
    /\ (JustAfterUrl /\ ~Serves(ops[1].arg)) =>
           /\ found_flags = {}
           /\ calls = <<>>
           /\ fetches = <<ops[1].arg>>
           /\ pc # "exited"
    /\ (JustAfterUrl /\ Serves(ops[1].arg)) =>
           LET url == ops[1].arg
               doc == DocAt(url)
           IN  \A i \in 1..Len(doc) :
                   /\ IsFetchedScript(doc[i]) =>
                          LET u == urljoin(url, doc[i].attr)
                          IN  /\ u \in Range(fetches)
                              /\ IF Serves(u)
                                 THEN Called(ResponseText(u), Label(u, JavaScriptKind))
                                 ELSE ~CalledFrom(Label(u, JavaScriptKind))
                   /\ IsFetchedStylesheet(doc[i]) =>
                          LET u == urljoin(url, doc[i].attr)
                          IN  /\ u \in Range(fetches)
                              /\ IF Serves(u)
                                 THEN /\ Called(ResponseText(u), Label(u, CssKind))
                                      /\ Matched(ResponseText(u)) \subseteq found_flags
                                 ELSE ~CalledFrom(Label(u, CssKind))
                   /\ (doc[i].tag = "script" /\ ~IsFetchedScript(doc[i]) /\ doc[i].str # <<>>) =>
                          Called(doc[i].str, Label(url, InlineJavaScriptKind))
                   /\ (doc[i].tag = "style" /\ doc[i].str # <<>>) =>
                          /\ Called(doc[i].str, Label(url, InlineCssKind))
                          /\ Matched(doc[i].str) \subseteq found_flags
                   /\ (doc[i].tag \in {"text", "comment"} \/ doc[i].str # <<>>) =>
                          Called(doc[i].str, Label(url, HtmlContentKind))

\* The script of http://h/p could not be fetched; the stylesheet after it was,
\* and its flag found.
C5_Witness ==
    /\ JustAfterUrl
    /\ ops[1].arg = PageUrl
    /\ down = {JsUrl}
    /\ Printed("[-] Error fetching", JsUrl)
    /\ FlagX1 \in found_flags
    /\ FlagY1 \notin found_flags

\* C6, the step: scan_file of a path open() fails on prints the error naming
\* the path, changes nothing else of the object and does not end the run.
C6_FailedScanStep ==
    (pc = "files" /\ open_read(args.files[1][fileIdx]) = None) =>
        /\ output' = Append(output, Out("[-] Error reading", args.files[1][fileIdx], <<>>, 0))
        /\ found_flags' = found_flags
        /\ calls' = calls
        /\ pc' \in {"files", "directory"}
        /\ exit_status' = None

\* C6, the run: nothing raised reaches the top of main(); a run that passes
\* the usage check ends with status 0 after every file and the directory were
\* scanned and the summary printed; with a nonexistent file as only input it
\* ends with no flag.
C6_RunSurvives ==
    /\ \A i \in 1..Len(output) : output[i].kind # "Traceback"
    /\ \A i \in 1..Len(ops) :
           (ops[i].op = "scan_file" /\ open_read(ops[i].arg) = None) =>
               Printed("[-] Error reading", ops[i].arg) /\ ~CalledFrom(ops[i].arg)
    /\ (pc = "exited" /\ Truthy(args.files)) =>
           /\ exit_status = Some(0)
           /\ ops = TruthyOps
           /\ LastOpIs("print_summary")
    /\ (pc = "exited" /\ args.files = Some(<<NoFile>>)
            /\ ~Truthy(args.url) /\ ~Truthy(args.directory)) =>
           found_flags = {} /\ exit_status = Some(0)

NoneGiven == args.url = None /\ args.files = None /\ args.directory = None

NoneTruthy == ~Truthy(args.url) /\ ~Truthy(args.files) /\ ~Truthy(args.directory)

UsageOnly ==
    /\ exit_status = Some(1)
    /\ ops = <<>>
    /\ calls = <<>>
    /\ [i \in 1..Len(output) |-> output[i].kind] = <<"usage">>

SummaryOnce == Cardinality({i \in 1..Len(output) : IsSeparator(output[i])}) = 2

\* C7 as stated: a run given none of url, files, directory prints usage and
\* exits non-zero without a scan or a summary; every other run performs every
\* scan asked for, url then files then directory, prints the summary once and
\* exits 0.
C7_AsStated ==
    pc = "exited" =>
        IF NoneGiven THEN UsageOnly
        ELSE /\ exit_status = Some(0)
             /\ ops = RequestedOps(args.url # None, args.files # None,
                                   args.directory # None)
             /\ SummaryOnce

\* C7 amended: a run in which url and directory are each absent or the empty
\* string, and files is absent, prints usage and exits non-zero without a
\* scan or a summary; every other run performs, in the order url, files,
\* directory, the scans whose argument is present and not empty, prints the
\* summary once after the last scan and exits 0.
C7_TruthyArgumentsInOrder ==
    /\ IsPrefix(ops, TruthyOps)
    /\ pc = "exited" =>
           IF NoneTruthy THEN UsageOnly
           ELSE /\ exit_status = Some(0)
                /\ ops = TruthyOps
                /\ SummaryOnce
                /\ LastOpIs("print_summary")

\* A run with a url, two files and a directory has ended.
C7_Witness ==
    /\ pc = "exited"
    /\ exit_status = Some(0)
    /\ Len(ops) = 5
    /\ ops[1].op = "scan_url"
    /\ ops[2].op = "scan_file" /\ ops[3].op = "scan_file"
    /\ ops[4].op = "scan_directory"
    /\ ops[5].op = "print_summary"

PathB == <<"d", "/", "t", "/", "s", "/", "b", ".", "J", "S">>

\* The files of the tree, by path, and what each holds.
TreePaths == {PathE, PathB, PathU, PathAjs, PathAtxt}

NameOf(path) == SubSeq(path, LastSlash(path) + 1, Len(path))

Under(directory) == {path \in TreePaths : StartsWith(path, directory \o <<"/">>)}

\* The paths scan_file was called with: each either scanned or reported.
PassedToScanFile ==
    {calls[i][2] : i \in 1..Len(calls)}
        \cup {output[i].text : i \in {k \in 1..Len(output) : output[k].kind = "[-] Error reading"}}

\* The state after one scan_directory by a new FlagFinder.
JustScannedDirectory == Len(ops) = 1 /\ ops[1].op = "scan_directory"

\* C8: scan_directory passes to scan_file exactly the files of the whole tree
\* under the directory whose name ends, case-sensitively, with one of the
\* extensions; filter [".js"] over a.js (USU{x1}) and a.txt (USU{x2}) leaves
\* found_flags = {USU{x1}}; flags of files not matching are not reported.
C8_ExactlyTheMatchingFiles ==
    JustScannedDirectory =>
        LET directory == ops[1].arg
            exts == IF ops[1].ext = None THEN DefaultExtensions ELSE ops[1].ext[1]
            wanted == {path \in Under(directory) :
                          \E k \in 1..Len(exts) : EndsWith(NameOf(path), exts[k])}
        IN  /\ PassedToScanFile = wanted
            /\ found_flags =
                   UNION {Matched(open_read(path)[1]) : path \in wanted \ unreadable}
            /\ (directory = DirT /\ exts = <<ExtJs>>) => found_flags = {FlagX1}
            /\ FlagB \notin found_flags

\* [".js"] over d/t, which holds a.js and a.txt, found USU{x1} alone.
C8_Witness ==
    /\ JustScannedDirectory
    /\ ops[1].arg = DirT
    /\ ops[1].ext = Some(<<ExtJs>>)
    /\ found_flags = {FlagX1}
    /\ PassedToScanFile = {PathAjs}

\* The state after one scan_url, whose main fetch succeeded, by a new
\* FlagFinder.
JustScannedUrl == Len(ops) = 1 /\ ops[1].op = "scan_url" /\ Serves(ops[1].arg)

CountOf(doc, Test(_)) == Len(SelectSeq(doc, Test))

ResolvedAgainst(url, nodes) == [i \in 1..Len(nodes) |-> urljoin(url, nodes[i].attr)]

\* The four configuration fields keep their values.
ConfigurationUnchanged ==
    /\ crawl' = crawl
    /\ max_depth' = max_depth
    /\ visited_urls' = visited_urls
    /\ base_domain' = base_domain

\* A URL found only in a sub-resource or an anchor is fetched only when the
\* caller itself asks fetch_url_content for it.
NeverFollowsLinks ==
    \A u \in {Js2Url, NextUrl} :
        u \in Range(fetches) =>
            \E i \in 1..Len(ops) : ops[i] = Op("fetch_url_content", u, None)

\* The operation o performed by the object st; source is the label handed to
\* find_flags_in_text, lst the listing scan_directory's walk goes by.
Perform(o, st, source, lst) ==
    CASE o.op = "find_flags_in_text" -> find_flags_in_text(st, o.arg, source)
      [] o.op = "scan_file" -> scan_file(st, o.arg)
      [] o.op = "scan_directory" ->
             LET t == ResolveDir(DirD, FSTree, o.arg)
             IN  scan_directory(st, o.arg, o.ext,
                     IF t = None THEN <<>> ELSE WalkTree(o.arg, t[1], lst))
      [] o.op = "scan_url" -> scan_url(st, o.arg)
      [] o.op = "fetch_url_content" -> fetch_url_content(st, o.arg).st
      [] o.op = "log" -> log(st, "[*] Note:", o.arg)
      [] o.op = "print_summary" -> print_summary(st)

\* What an operation does that can be seen: all but the four fields.
Effects(st) ==
    [found_flags |-> st.found_flags, output |-> st.output,
     fetches |-> st.fetches, calls |-> st.calls, raised |-> st.raised]

\* The object with one of the four fields holding another value.
OtherConfigurations ==
    {[Self EXCEPT !.crawl = ~crawl],
     [Self EXCEPT !.max_depth = 0],
     [Self EXCEPT !.visited_urls = WebUrls],
     [Self EXCEPT !.base_domain = Some(<<"h">>)]}

\* The four fields are not read: the operation of this step, performed with
\* any of them holding another value, does exactly what the step did.
ConfigurationNotRead ==
    \A other \in OtherConfigurations :
        Effects(Perform(ops'[Len(ops')], other,
                        IF calls' = <<>> THEN <<>> ELSE calls'[Len(calls')][2],
                        listing'))
            = [found_flags |-> found_flags', output |-> output',
               fetches |-> fetches', calls |-> calls', raised |-> FALSE]

\* The count of fetches C9 states: one for the page, one per script element
\* with a src attribute, one per stylesheet link with an href.
C9_FetchPerAttribute ==
    /\ NeverFollowsLinks
    /\ JustScannedUrl =>
           Len(fetches) = 1 + CountOf(DocAt(ops[1].arg), IsScriptWithSrc)
                            + CountOf(DocAt(ops[1].arg), IsStylesheetWithHref)

\* C9 as stated: scan_url never crawls: one fetch for the page, one per
\* script element with a src attribute, one per stylesheet link with an href,
\* none of a URL found only in a sub-resource or an anchor; crawl, max_depth,
\* visited_urls and base_domain are never read or modified.
C9_AsStated ==
    /\ []C9_FetchPerAttribute
    /\ [][ConfigurationUnchanged /\ ConfigurationNotRead]_vars

\* The fetches of one scan_url: the page, then each script whose src is not
\* empty, then each stylesheet link whose href is not empty, and no other.
C9_FetchesDirectResources ==
    /\ NeverFollowsLinks
    /\ JustScannedUrl =>
           fetches = <<ops[1].arg>>
                         \o ResolvedAgainst(ops[1].arg,
                                SelectSeq(DocAt(ops[1].arg), IsFetchedScript))
                         \o ResolvedAgainst(ops[1].arg,
                                SelectSeq(DocAt(ops[1].arg), IsFetchedStylesheet))

\* C9 amended: scan_url never crawls: with the main fetch succeeding it
\* fetches the page, one URL per script element with a non-empty src and one
\* per stylesheet link with a non-empty href, never a URL found only in a
\* sub-resource or an anchor; crawl, max_depth, visited_urls and base_domain
\* are never read or modified: every operation leaves them as constructed and
\* does the same whatever they hold.
C9_NeverCrawls ==
    /\ []C9_FetchesDirectResources
    /\ [][ConfigurationUnchanged /\ ConfigurationNotRead]_vars

\* http://h/p has been scanned: three fetches, its script with an empty src
\* not among them.
C9_Witness ==
    /\ JustScannedUrl
    /\ ops[1].arg = PageUrl
    /\ fetches = <<PageUrl, JsUrl, CssUrl>>
    /\ CountOf(PageDoc, IsScriptWithSrc) = 2
    /\ crawl /\ max_depth = 1

\* The strings an operation's input holds.
BlobMatches(o) ==
    IF o.op = "find_flags_in_text" THEN Matched(o.arg)
    ELSE IF open_read(o.arg) = None THEN {}
    ELSE Matched(open_read(o.arg)[1])

OnlyBlobScans ==
    \A i \in 1..Len(ops) : ops[i].op \in {"find_flags_in_text", "scan_file"}

\* C10: whatever the order in which texts and files are scanned, found_flags
\* ends as the union of the matches of the individual inputs.
C10_OrderIndependent ==
    OnlyBlobScans => found_flags = UNION {BlobMatches(ops[i]) : i \in 1..Len(ops)}

\* d/e.js scanned after a text sharing one flag with it: the union of both.
C10_Witness ==
    /\ Len(ops) = 2
    /\ ops[1] = Op("find_flags_in_text", FlagA \o FlagB, None)
    /\ ops[2] = Op("scan_file", PathE, None)
    /\ found_flags = {FlagA, FlagB, FlagX1}

====
